---- MODULE Spec2Model ----
(***************************************************************************)
(* RustKV (src/src/kv.rs): a key-value store made of an in-memory map and  *)
(* a write-ahead log file.  The model keeps the log file as a sequence of  *)
(* bytes, the BufWriter over it (buffer and file offset), the map, the two *)
(* locks (Mutex over the writer, RwLock over the map) with their poison    *)
(* flags, and every thread's position inside set / get / remove.           *)
(***************************************************************************)
EXTENDS Integers, Sequences, FiniteSets, TLC

VARIABLES
    file,           \* bytes of the log file at `path`
    wpos,           \* offset of the writer's file handle (kv.rs:40-48)
    buf,            \* bytes held in the BufWriter's buffer
    map,            \* KvStore.map: the HashMap behind the RwLock
    store,          \* "closed" (no KvStore value) or "open"
    lastOpen,       \* result of the last open(): "none", "ok", "serde", "abort"
    wHolder,        \* thread holding the writer Mutex, 0 if free
    wPoisoned,      \* writer Mutex poisoned
    mWriter,        \* thread holding the map's write lock, 0 if none
    mReaders,       \* threads holding the map's read lock
    mPoisoned,      \* map RwLock poisoned
    pc,             \* per thread: position inside its current call
    op,             \* per thread: the call it is running or last ran
    res,            \* per thread: what its last call returned
    sawPoison,      \* per thread: which locks were poisoned when its call began
    cid,            \* per thread: number of its current call
    ncalls,         \* calls issued so far
    budget,         \* calls the callers issue in all
    dropped,        \* a store was open on this path before and has been dropped
    faults,         \* I/O errors and panics so far
    logOrder,       \* call numbers, in the order their appends completed
    applyOrder,     \* call numbers, in the order they changed the map
    hist,           \* calls returned in this session, in return order
    mapAtDrop       \* the map when the previous session's handles were dropped

vars == <<file, wpos, buf, map, store, lastOpen, wHolder, wPoisoned, mWriter,
          mReaders, mPoisoned, pc, op, res, sawPoison, cid, ncalls, budget,
          dropped, faults,
                   logOrder, applyOrder, hist, mapAtDrop>>

-----------------------------------------------------------------------------
(* Bounds of the model *)

\* Calls issued by the threads sharing one store, and by a single caller.
MaxCalls == 2
MaxCallsAlone == 3
\* Commands in a log file handed to open.
MaxLogLen == 2
\* I/O errors and panics in one run.
MaxFaults == 1

Threads == {1, 2}
Writers == {1, 2, 3}

Keys == {<<>>, <<97>>}
Values == {<<>>, <<120>>}

\* Numbers of bytes a failing flush got onto the file before the error.
WriteCuts == {0, 6}

-----------------------------------------------------------------------------
(* Command and its bincode encoding (kv.rs:12-16, 70, 105) *)

SetCmd(k, v) == [tag |-> "Set", key |-> k, value |-> v]
RemoveCmd(k) == [tag |-> "Remove", key |-> k, value |-> <<>>]

\* n as w little-endian bytes (bincode's fixed-width integers).
LE(n, w) == [i \in 1..w |-> IF i = 1 THEN n % 256
                            ELSE IF i = 2 THEN (n \div 256) % 256
                            ELSE IF i = 3 THEN (n \div 65536) % 256
                            ELSE 0]

\* The value of little-endian bytes; anything of 2^24 or more reads as 2^24,
\* which is longer than any file of the model.
FromLE(bs) ==
    IF \E i \in 4..Len(bs) : bs[i] # 0 THEN 256 * 256 * 256
    ELSE bs[1] + 256 * bs[2] + 65536 * bs[3]

\* A String: its length as u64, then its bytes.
EncodeStr(s) == LE(Len(s), 8) \o s

\* An enum value: the variant index as u32 (Set = 0, Remove = 1), then the fields.
Encode(c) ==
    IF c.tag = "Set" THEN LE(0, 4) \o EncodeStr(c.key) \o EncodeStr(c.value)
    ELSE LE(1, 4) \o EncodeStr(c.key)

\* The bytes of the variant index alone, and of the fields alone: serialize_into
\* hands them to the writer in separate write calls.
EncodeTag(c) == SubSeq(Encode(c), 1, 4)
EncodeFields(c) == SubSeq(Encode(c), 5, Len(Encode(c)))

RECURSIVE EncodeAll(_)
EncodeAll(cs) == IF cs = <<>> THEN <<>> ELSE Encode(Head(cs)) \o EncodeAll(Tail(cs))

\* Only ASCII and bytes that occur in no UTF-8 text are used by the model.
Utf8Valid(s) == \A i \in 1..Len(s) : s[i] < 128

\* read_exact of n bytes at offset p: the bytes, or UnexpectedEof.
ReadExact(b, p, n) ==
    IF p + n <= Len(b) THEN [st |-> "ok", bytes |-> SubSeq(b, p + 1, p + n), next |-> p + n]
    ELSE [st |-> "eof", bytes |-> <<>>, next |-> Len(b)]

\* A String at offset p.  bincode allocates a buffer of the length it has read
\* before it reads the bytes: for a length of 2^24 or more that the file does
\* not hold ("huge") the allocation may fail and end the process, or succeed
\* and leave read_exact to report UnexpectedEof.
DecodeStr(b, p) ==
    LET l == ReadExact(b, p, 8) IN
    IF l.st # "ok" THEN [st |-> "eof", str |-> <<>>, next |-> l.next]
    ELSE LET s == ReadExact(b, l.next, FromLE(l.bytes)) IN
         IF s.st # "ok" /\ FromLE(l.bytes) >= 256 * 256 * 256
         THEN [st |-> "huge", str |-> <<>>, next |-> s.next]
         ELSE IF s.st # "ok" THEN [st |-> "eof", str |-> <<>>, next |-> s.next]
         ELSE IF ~Utf8Valid(s.bytes) THEN [st |-> "invalid", str |-> <<>>, next |-> s.next]
         ELSE [st |-> "ok", str |-> s.bytes, next |-> s.next]

\* bincode::deserialize_from at offset p: "ok" with the Command, "eof" for an
\* Io(UnexpectedEof) error wherever the stream ended, "invalid" for any other
\* error, "huge" as in DecodeStr.
Decode(b, p) ==
    LET none == RemoveCmd(<<>>)
        t == ReadExact(b, p, 4) IN
    IF t.st # "ok" THEN [st |-> "eof", cmd |-> none, next |-> t.next]
    ELSE IF FromLE(t.bytes) \notin {0, 1} THEN [st |-> "invalid", cmd |-> none, next |-> t.next]
    ELSE LET k == DecodeStr(b, t.next) IN
         IF k.st # "ok" THEN [st |-> k.st, cmd |-> none, next |-> k.next]
         ELSE IF FromLE(t.bytes) = 1 THEN [st |-> "ok", cmd |-> RemoveCmd(k.str), next |-> k.next]
         ELSE LET v == DecodeStr(b, k.next) IN
              IF v.st # "ok" THEN [st |-> v.st, cmd |-> none, next |-> v.next]
              ELSE [st |-> "ok", cmd |-> SetCmd(k.str, v.str), next |-> v.next]

-----------------------------------------------------------------------------
(* The HashMap (kv.rs:74, 77, 110, 122, 140) *)

EmptyMap == [k \in {} |-> <<>>]

MapInsert(m, k, v) == [x \in DOMAIN m \cup {k} |-> IF x = k THEN v ELSE m[x]]

MapRemove(m, k) == [x \in DOMAIN m \ {k} |-> m[x]]

\* One arm of load's match on a decoded Command.
ApplyCmd(m, c) ==
    IF c.tag = "Set" THEN MapInsert(m, c.key, c.value) ELSE MapRemove(m, c.key)

\* Mutant of EndsLog: load without the UnexpectedEof case, every decode error
\* fails it.
EndsLogNever(st) == FALSE

\* load's decision on a decode error: only Io(UnexpectedEof) ends the loop.
EndsLog(st) == st = "eof"

\* KvStore::load: decode and apply until the first error.  `ok` is load's
\* result when the process lives; `huge` tells that it may not.
RECURSIVE LoadFrom(_, _, _)
LoadFrom(b, p, m) ==
    LET d == Decode(b, p) IN
    IF d.st = "ok" THEN LoadFrom(b, d.next, ApplyCmd(m, d.cmd))
    ELSE [ok |-> EndsLog(IF d.st = "huge" THEN "eof" ELSE d.st),
          huge |-> d.st = "huge",
          map |-> m]

Load(b) == LoadFrom(b, 0, EmptyMap)

-----------------------------------------------------------------------------
(* The log file and the BufWriter over it *)

\* write(2) of bytes at offset pos of a file opened without O_APPEND.
WriteAt(f, pos, bytes) ==
    LET n == IF pos + Len(bytes) > Len(f) THEN pos + Len(bytes) ELSE Len(f) IN
    [i \in 1..n |-> IF i > pos /\ i <= pos + Len(bytes) THEN bytes[i - pos] ELSE f[i]]

\* OpenOptions read+write+create (no append, no truncate): the offset of a
\* newly opened handle.
OpenOffset(f) == 0

-----------------------------------------------------------------------------
(* Results and bookkeeping *)

NoOp == [kind |-> "get", key |-> <<>>, value |-> <<>>]

R(tag, v) == [t |-> tag, v |-> v]
NoRes == R("none", <<>>)

Cmd(o) == IF o.kind = "set" THEN SetCmd(o.key, o.value) ELSE RemoveCmd(o.key)

Idle(T) == \A t \in T : pc[t] = "idle"

\* A call returns r to its caller.
Return(t, r) ==
    /\ pc' = [pc EXCEPT ![t] = "idle"]
    /\ res' = [res EXCEPT ![t] = r]
    /\ hist' = Append(hist, [th |-> t, op |-> op[t], res |-> r])

\* A call begins.
Begin(t, o, at) ==
    /\ store = "open"
    /\ pc[t] = "idle"
    /\ ncalls < budget
    /\ op' = [op EXCEPT ![t] = o]
    /\ pc' = [pc EXCEPT ![t] = at]
    /\ res' = [res EXCEPT ![t] = NoRes]
    /\ sawPoison' = [sawPoison EXCEPT ![t] = [w |-> wPoisoned, m |-> mPoisoned]]
    /\ cid' = [cid EXCEPT ![t] = ncalls + 1]
    /\ ncalls' = ncalls + 1
    /\ UNCHANGED <<budget, file, wpos, buf, map, store, lastOpen, wHolder, wPoisoned,
                   mWriter,
                   mReaders, mPoisoned, dropped, faults, logOrder,
                   applyOrder, hist, mapAtDrop>>

-----------------------------------------------------------------------------
(* KvStore::set, KvStore::remove, KvStore::get *)

\* set(key, value) is called (kv.rs:97-98).
CallSet(t) ==
    /\ pc[t] = "idle"
    /\ \E k \in Keys, v \in Values :
        Begin(t, [kind |-> "set", key |-> k, value |-> v], "lock_writer")

\* remove(key) is called (kv.rs:128-129).
CallRemove(t) ==
    /\ pc[t] = "idle"
    /\ \E k \in Keys :
        Begin(t, [kind |-> "remove", key |-> k, value |-> <<>>], "lock_writer")

\* get(key) is called (kv.rs:119).
CallGet(t) ==
    /\ pc[t] = "idle"
    /\ \E k \in Keys :
        Begin(t, [kind |-> "get", key |-> k, value |-> <<>>], "lock_read")

\* Mutant of LockWriter: the writer is entered without waiting for the Mutex.
LockWriterNoMutex(t) ==
    /\ pc[t] = "lock_writer"
    /\ wHolder' = t
    /\ pc' = [pc EXCEPT ![t] = "ser_tag"]
    /\ UNCHANGED <<file, wpos, buf, map, store, lastOpen, wPoisoned, mWriter, mReaders,
                   mPoisoned, op, res, sawPoison, cid, ncalls, budget, dropped, faults,
                   logOrder, applyOrder, hist, mapAtDrop>>

\* self.writer.lock(): blocks while the Mutex is held; a poisoned Mutex makes
\* the call return Internal (kv.rs:104, 133).
LockWriter(t) ==
    /\ pc[t] = "lock_writer"
    /\ wHolder = 0
    /\ IF wPoisoned
       THEN /\ Return(t, R("internal", <<>>))
            /\ UNCHANGED wHolder
       ELSE /\ wHolder' = t
            /\ pc' = [pc EXCEPT ![t] = "ser_tag"]
            /\ UNCHANGED <<res, hist>>
    /\ UNCHANGED <<file, wpos, buf, map, store, lastOpen, wPoisoned, mWriter, mReaders,
                   mPoisoned, op, sawPoison, cid, ncalls, budget, dropped, faults,
                   logOrder, applyOrder, mapAtDrop>>

\* Mutant of SerializeTag: the Mutex is taken for each write to the writer, not
\* for the whole record, and is free again after the variant index.
SerializeTagPerWriteLock(t) ==
    /\ pc[t] = "ser_tag"
    /\ buf' = buf \o EncodeTag(Cmd(op[t]))
    /\ pc' = [pc EXCEPT ![t] = "ser_fields"]
    /\ wHolder' = 0
    /\ UNCHANGED <<file, wpos, map, store, lastOpen, wPoisoned, mWriter,
                   mReaders, mPoisoned, op, res, sawPoison, cid, ncalls, budget, dropped, faults,
                   logOrder, applyOrder, hist, mapAtDrop>>

\* bincode::serialize_into, first write: the variant index goes into the
\* BufWriter's buffer (kv.rs:105, 134).
SerializeTag(t) ==
    /\ pc[t] = "ser_tag"
    /\ buf' = buf \o EncodeTag(Cmd(op[t]))
    /\ pc' = [pc EXCEPT ![t] = "ser_fields"]
    /\ UNCHANGED <<file, wpos, map, store, lastOpen, wHolder, wPoisoned, mWriter,
                   mReaders, mPoisoned, op, res, sawPoison, cid, ncalls, budget, dropped, faults,
                   logOrder, applyOrder, hist, mapAtDrop>>

\* bincode::serialize_into, remaining writes: the fields (kv.rs:105, 134).
SerializeFields(t) ==
    /\ pc[t] = "ser_fields"
    /\ buf' = buf \o EncodeFields(Cmd(op[t]))
    /\ pc' = [pc EXCEPT ![t] = "flush"]
    /\ UNCHANGED <<file, wpos, map, store, lastOpen, wHolder, wPoisoned, mWriter,
                   mReaders, mPoisoned, op, res, sawPoison, cid, ncalls, budget, dropped, faults,
                   logOrder, applyOrder, hist, mapAtDrop>>

\* Where a call goes after a flush that succeeded: on to the map's write lock.
AfterFlushOk(t) ==
    /\ pc' = [pc EXCEPT ![t] = "lock_map"]
    /\ UNCHANGED <<res, hist>>

\* Mutant of FlushOk: the writer's guard lives to the end of the function, so
\* the Mutex is still held when the map's lock is taken.
FlushOkKeepsGuard(t) ==
    /\ pc[t] = "flush"
    /\ file' = WriteAt(file, wpos, buf)
    /\ wpos' = wpos + Len(buf)
    /\ buf' = <<>>
    /\ logOrder' = Append(logOrder, cid[t])
    /\ AfterFlushOk(t)
    /\ UNCHANGED <<map, store, lastOpen, wHolder, wPoisoned, mWriter, mReaders, mPoisoned, op,
                   sawPoison, cid, ncalls, budget, dropped, faults, applyOrder,
                   mapAtDrop>>

\* writer.flush() succeeds: the whole buffer is written at the handle's offset
\* and the guard is dropped (kv.rs:106-107, 135-136).
FlushOk(t) ==
    /\ pc[t] = "flush"
    /\ file' = WriteAt(file, wpos, buf)
    /\ wpos' = wpos + Len(buf)
    /\ buf' = <<>>
    /\ wHolder' = 0
    /\ logOrder' = Append(logOrder, cid[t])
    /\ AfterFlushOk(t)
    /\ UNCHANGED <<map, store, lastOpen, wPoisoned, mWriter, mReaders, mPoisoned, op,
                   sawPoison, cid, ncalls, budget, dropped, faults, applyOrder,
                   mapAtDrop>>

\* Mutant of AfterFlushErr: the flush's error is dropped and the call goes on.
AfterFlushErrIgnored(t) ==
    /\ pc' = [pc EXCEPT ![t] = "lock_map"]
    /\ UNCHANGED <<res, hist>>

\* Where a call goes after a flush that failed: `?` returns the Io error.
AfterFlushErr(t) == Return(t, R("io", <<>>))

\* writer.flush() fails after n bytes: BufWriter keeps the unwritten rest in its
\* buffer, `?` returns the Io error and the guard is dropped (kv.rs:106, 135).
FlushErr(t) ==
    /\ pc[t] = "flush"
    /\ faults < MaxFaults
    /\ \E n \in WriteCuts :
        /\ n < Len(buf)
        /\ file' = WriteAt(file, wpos, SubSeq(buf, 1, n))
        /\ wpos' = wpos + n
        /\ buf' = SubSeq(buf, n + 1, Len(buf))
    /\ faults' = faults + 1
    /\ wHolder' = 0
    /\ AfterFlushErr(t)
    /\ UNCHANGED <<map, store, lastOpen, wPoisoned, mWriter, mReaders, mPoisoned, op,
                   sawPoison, cid, ncalls, budget, dropped, logOrder, applyOrder,
                   mapAtDrop>>

\* Mutant of LockMapWrite: a poisoned RwLock is entered all the same.
LockMapWriteIgnoresPoison(t) ==
    /\ pc[t] = "lock_map"
    /\ mWriter = 0
    /\ mReaders = {}
    /\ mWriter' = t
    /\ pc' = [pc EXCEPT ![t] = "apply"]
    /\ UNCHANGED <<file, wpos, buf, map, store, lastOpen, wHolder, wPoisoned, mReaders,
                   mPoisoned, op, res, sawPoison, cid, ncalls, budget, dropped, faults,
                   logOrder, applyOrder, hist, mapAtDrop>>

\* self.map.write(): blocks while the RwLock is held by anyone; a poisoned
\* RwLock makes the call return Internal (kv.rs:109, 139).
LockMapWrite(t) ==
    /\ pc[t] = "lock_map"
    /\ mWriter = 0
    /\ mReaders = {}
    /\ IF mPoisoned
       THEN /\ Return(t, R("internal", <<>>))
            /\ UNCHANGED mWriter
       ELSE /\ mWriter' = t
            /\ pc' = [pc EXCEPT ![t] = "apply"]
            /\ UNCHANGED <<res, hist>>
    /\ UNCHANGED <<file, wpos, buf, map, store, lastOpen, wHolder, wPoisoned, mReaders,
                   mPoisoned, op, sawPoison, cid, ncalls, budget, dropped, faults,
                   logOrder, applyOrder, mapAtDrop>>

\* Mutant of RemoveResult: remove without the check of what map.remove returned.
RemoveResultAlwaysOk(m, k) == R("ok", <<>>)

\* What remove returns once it holds the write lock (kv.rs:140-144).
RemoveResult(m, k) == IF k \in DOMAIN m THEN R("ok", <<>>) ELSE R("notfound", <<>>)

\* set: map.insert(key, value); Ok(()) (kv.rs:110-112).
ApplySet(t) ==
    /\ pc[t] = "apply"
    /\ op[t].kind = "set"
    /\ map' = MapInsert(map, op[t].key, op[t].value)
    /\ mWriter' = 0
    /\ applyOrder' = Append(applyOrder, cid[t])
    /\ Return(t, R("ok", <<>>))
    /\ UNCHANGED <<file, wpos, buf, store, lastOpen, wHolder, wPoisoned, mReaders,
                   mPoisoned, op, sawPoison, cid, ncalls, budget, dropped, faults,
                   logOrder, mapAtDrop>>

\* remove: map.remove(&key), KeyNotFound if it was absent (kv.rs:140-144).
ApplyRemove(t) ==
    /\ pc[t] = "apply"
    /\ op[t].kind = "remove"
    /\ map' = MapRemove(map, op[t].key)
    /\ mWriter' = 0
    /\ applyOrder' = Append(applyOrder, cid[t])
    /\ Return(t, RemoveResult(map, op[t].key))
    /\ UNCHANGED <<file, wpos, buf, store, lastOpen, wHolder, wPoisoned, mReaders,
                   mPoisoned, op, sawPoison, cid, ncalls, budget, dropped, faults,
                   logOrder, mapAtDrop>>

\* Mutant of GetLockRead: one coarse lock, get waits for the writer Mutex too.
GetLockReadCoarse(t) ==
    /\ pc[t] = "lock_read"
    /\ mWriter = 0
    /\ wHolder = 0
    /\ IF mPoisoned
       THEN /\ Return(t, R("internal", <<>>))
            /\ UNCHANGED mReaders
       ELSE /\ mReaders' = mReaders \cup {t}
            /\ pc' = [pc EXCEPT ![t] = "read"]
            /\ UNCHANGED <<res, hist>>
    /\ UNCHANGED <<file, wpos, buf, map, store, lastOpen, wHolder, wPoisoned, mWriter,
                   mPoisoned, op, sawPoison, cid, ncalls, budget, dropped, faults,
                   logOrder, applyOrder, mapAtDrop>>

\* get: self.map.read(): blocks while a writer holds the RwLock; poisoned gives
\* Internal (kv.rs:121).
GetLockRead(t) ==
    /\ pc[t] = "lock_read"
    /\ mWriter = 0
    /\ IF mPoisoned
       THEN /\ Return(t, R("internal", <<>>))
            /\ UNCHANGED mReaders
       ELSE /\ mReaders' = mReaders \cup {t}
            /\ pc' = [pc EXCEPT ![t] = "read"]
            /\ UNCHANGED <<res, hist>>
    /\ UNCHANGED <<file, wpos, buf, map, store, lastOpen, wHolder, wPoisoned, mWriter,
                   mPoisoned, op, sawPoison, cid, ncalls, budget, dropped, faults,
                   logOrder, applyOrder, mapAtDrop>>

\* Mutant of GetResult: get that finds no key.
GetResultNeverFinds(m, k) == R("absent", <<>>)

\* What get returns for key k of map m (kv.rs:122).
GetResult(m, k) == IF k \in DOMAIN m THEN R("value", m[k]) ELSE R("absent", <<>>)

\* get: Ok(map.get(&key).cloned()) and the read guard is dropped (kv.rs:122-123).
GetRead(t) ==
    /\ pc[t] = "read"
    /\ mReaders' = mReaders \ {t}
    /\ Return(t, GetResult(map, op[t].key))
    /\ UNCHANGED <<file, wpos, buf, map, store, lastOpen, wHolder, wPoisoned, mWriter,
                   mPoisoned, op, sawPoison, cid, ncalls, budget, dropped, faults,
                   logOrder, applyOrder, mapAtDrop>>

\* A thread panics while it holds the writer's MutexGuard: unwinding drops the
\* guard, which poisons the Mutex; the call never returns.
PanicInWriter(t) ==
    /\ pc[t] \in {"ser_tag", "ser_fields", "flush"}
    /\ faults < MaxFaults
    /\ faults' = faults + 1
    /\ wPoisoned' = TRUE
    /\ wHolder' = 0
    /\ pc' = [pc EXCEPT ![t] = "dead"]
    /\ UNCHANGED <<file, wpos, buf, map, store, lastOpen, mWriter, mReaders, mPoisoned,
                   op, res, sawPoison, cid, ncalls, budget, dropped, logOrder,
                   applyOrder, hist, mapAtDrop>>

\* A thread panics while it holds the map's write guard, before the mutation.
PanicInMap(t) ==
    /\ pc[t] = "apply"
    /\ faults < MaxFaults
    /\ faults' = faults + 1
    /\ mPoisoned' = TRUE
    /\ mWriter' = 0
    /\ pc' = [pc EXCEPT ![t] = "dead"]
    /\ UNCHANGED <<file, wpos, buf, map, store, lastOpen, wHolder, wPoisoned, mReaders,
                   op, res, sawPoison, cid, ncalls, budget, dropped, logOrder,
                   applyOrder, hist, mapAtDrop>>

-----------------------------------------------------------------------------
(* KvStore::open and the drop of the last handle *)

\* Mutant of Opened: the log file opened with truncate(true).
OpenedTruncating(m) ==
    /\ store' = "open"
    /\ lastOpen' = "ok"
    /\ map' = m
    /\ file' = <<>>
    /\ wpos' = 0
    /\ buf' = <<>>
    /\ wHolder' = 0
    /\ wPoisoned' = FALSE
    /\ mWriter' = 0
    /\ mReaders' = {}
    /\ mPoisoned' = FALSE
    /\ UNCHANGED <<pc, op, res, sawPoison, cid, ncalls, budget, dropped, faults,
                   logOrder, applyOrder, hist, mapAtDrop>>

\* The state of a KvStore that open has just returned, with map m.
Opened(m) ==
    /\ store' = "open"
    /\ lastOpen' = "ok"
    /\ map' = m
    /\ wpos' = OpenOffset(file)
    /\ buf' = <<>>
    /\ wHolder' = 0
    /\ wPoisoned' = FALSE
    /\ mWriter' = 0
    /\ mReaders' = {}
    /\ mPoisoned' = FALSE
    /\ UNCHANGED <<file, pc, op, res, sawPoison, cid, ncalls, budget, dropped, faults,
                   logOrder, applyOrder, hist, mapAtDrop>>

\* open(path) replays the log and returns a store (kv.rs:37-61).
OpenOk ==
    /\ store = "closed"
    /\ Load(file).ok
    /\ Opened(Load(file).map)

\* open(path) fails: load returned a Serde error (kv.rs:55, 87).
OpenErr ==
    /\ store = "closed"
    /\ ~Load(file).ok
    /\ lastOpen' = "serde"
    /\ UNCHANGED <<file, wpos, buf, map, store, wHolder, wPoisoned, mWriter, mReaders,
                   mPoisoned, pc, op, res, sawPoison, cid, ncalls, budget, dropped, faults,
                   logOrder, applyOrder, hist, mapAtDrop>>

\* open(path) does not return: the allocation for a String of a huge length
\* failed inside load (kv.rs:70).
OpenAbort ==
    /\ store = "closed"
    /\ Load(file).huge
    /\ lastOpen' = "abort"
    /\ UNCHANGED <<file, wpos, buf, map, store, wHolder, wPoisoned, mWriter, mReaders,
                   mPoisoned, pc, op, res, sawPoison, cid, ncalls, budget, dropped, faults,
                   logOrder, applyOrder, hist, mapAtDrop>>

\* Every handle is dropped while no call is running.  BufWriter's Drop writes
\* what is left in the buffer and ignores an error.
DropStore ==
    /\ store = "open"
    /\ \A t \in DOMAIN pc : pc[t] \in {"idle", "dead"}
    /\ \/ /\ file' = WriteAt(file, wpos, buf)
          /\ wpos' = wpos + Len(buf)
          /\ buf' = <<>>
          /\ UNCHANGED faults
       \/ /\ faults < MaxFaults
          /\ \E n \in WriteCuts :
              /\ n < Len(buf)
              /\ file' = WriteAt(file, wpos, SubSeq(buf, 1, n))
              /\ wpos' = wpos + n
              /\ buf' = SubSeq(buf, n + 1, Len(buf))
          /\ faults' = faults + 1
    /\ store' = "closed"
    /\ mapAtDrop' = map
    /\ map' = EmptyMap
    /\ wPoisoned' = FALSE
    /\ mPoisoned' = FALSE
    /\ pc' = [t \in DOMAIN pc |-> "idle"]
    /\ op' = [t \in DOMAIN pc |-> NoOp]
    /\ res' = [t \in DOMAIN pc |-> NoRes]
    /\ sawPoison' = [t \in DOMAIN pc |-> [w |-> FALSE, m |-> FALSE]]
    /\ cid' = [t \in DOMAIN pc |-> 0]
    /\ logOrder' = <<>>
    /\ applyOrder' = <<>>
    /\ hist' = <<>>
    /\ dropped' = TRUE
    /\ UNCHANGED <<lastOpen, wHolder, mWriter, mReaders, ncalls, budget>>

-----------------------------------------------------------------------------
(* Specifications *)

InitFor(T, f, n) ==
    /\ file = f
    /\ wpos = 0
    /\ buf = <<>>
    /\ map = EmptyMap
    /\ store = "closed"
    /\ lastOpen = "none"
    /\ wHolder = 0
    /\ wPoisoned = FALSE
    /\ mWriter = 0
    /\ mReaders = {}
    /\ mPoisoned = FALSE
    /\ pc = [t \in T |-> "idle"]
    /\ op = [t \in T |-> NoOp]
    /\ res = [t \in T |-> NoRes]
    /\ sawPoison = [t \in T |-> [w |-> FALSE, m |-> FALSE]]
    /\ cid = [t \in T |-> 0]
    /\ ncalls = 0
    /\ budget = n
    /\ dropped = FALSE
    /\ faults = 0
    /\ logOrder = <<>>
    /\ applyOrder = <<>>
    /\ hist = <<>>
    /\ mapAtDrop = EmptyMap

\* Threads sharing clones of one store on a path that does not exist yet.
Init == InitFor(Threads, <<>>, MaxCalls)

Step(t) ==
    \/ CallSet(t)
    \/ CallRemove(t)
    \/ CallGet(t)
    \/ LockWriter(t)
    \/ SerializeTag(t)
    \/ SerializeFields(t)
    \/ FlushOk(t)
    \/ FlushErr(t)
    \/ LockMapWrite(t)
    \/ ApplySet(t)
    \/ ApplyRemove(t)
    \/ GetLockRead(t)
    \/ GetRead(t)
    \/ PanicInWriter(t)
    \/ PanicInMap(t)

\* One store shared by the threads for its whole life.
Next ==
    \/ OpenOk
    \/ \E t \in Threads : Step(t)

Spec == Init /\ [][Next]_vars

\* The steps of a call that has begun: what the thread does once the caller
\* has called set, remove or get, with flushes that succeed or fail and no panic.
Progress(t) ==
    \/ LockWriter(t)
    \/ SerializeTag(t)
    \/ SerializeFields(t)
    \/ FlushOk(t)
    \/ FlushErr(t)
    \/ LockMapWrite(t)
    \/ ApplySet(t)
    \/ ApplyRemove(t)
    \/ GetLockRead(t)
    \/ GetRead(t)

\* The calls of the threads whose termination is examined: every kind of
\* call, all on the key "a", which no step of taking or waiting for a lock
\* reads.
CallSetA(t) ==
    /\ pc[t] = "idle"
    /\ Begin(t, [kind |-> "set", key |-> <<97>>, value |-> <<120>>], "lock_writer")

CallRemoveA(t) ==
    /\ pc[t] = "idle"
    /\ Begin(t, [kind |-> "remove", key |-> <<97>>, value |-> <<>>], "lock_writer")

CallGetA(t) ==
    /\ pc[t] = "idle"
    /\ Begin(t, [kind |-> "get", key |-> <<97>>, value |-> <<>>], "lock_read")

NextLive ==
    \/ OpenOk
    \/ \E t \in Threads : CallSetA(t) \/ CallRemoveA(t) \/ CallGetA(t) \/ Progress(t)

\* The threads of one store under a scheduler that lets every thread that can
\* take a step take one in the end; callers may stop calling.
SpecLive == Init /\ [][NextLive]_vars /\ \A t \in Threads : WF_vars(Progress(t))

\* A single caller, over successive sessions on the same path.
InitSessions == InitFor({1}, <<>>, MaxCallsAlone)

NextSessions ==
    \/ OpenOk
    \/ OpenErr
    \/ OpenAbort
    \/ DropStore
    \/ Step(1)

SpecSessions == InitSessions /\ [][NextSessions]_vars

-----------------------------------------------------------------------------
(* open on a log file that is already there *)

\* The Commands a log file is made of.
LogCmds ==
    {SetCmd(k, v) : k \in Keys, v \in Values} \cup {RemoveCmd(k) : k \in Keys}

LogSeqs == UNION {[1..n -> LogCmds] : n \in 0..MaxLogLen}

\* Every well-formed log with the Commands it holds.
Logs == {[cmds |-> cs, bytes |-> EncodeAll(cs)] : cs \in LogSeqs}

\* The offsets of a well-formed log at which a record ends.
Boundaries(cs) == {Len(EncodeAll(SubSeq(cs, 1, n))) : n \in 0..Len(cs)}

\* Well-formed logs cut anywhere, and well-formed logs followed by a record
\* with a variant index that Command does not have, by a key that is not
\* UTF-8, or by a key length of 2^56.
LoadInputs ==
    UNION {{SubSeq(l.bytes, 1, n) : n \in 0..Len(l.bytes)} : l \in Logs}
    \cup {l.bytes \o LE(2, 4) : l \in Logs}
    \cup {l.bytes \o Encode(RemoveCmd(<<255>>)) : l \in Logs}
    \cup {l.bytes \o LE(1, 4) \o <<0, 0, 0, 0, 0, 0, 0, 1>> : l \in Logs}

InitLoad == \E f \in LoadInputs : InitFor({1}, f, 0)

NextLoad == OpenOk \/ OpenErr \/ OpenAbort

SpecLoad == InitLoad /\ [][NextLoad]_vars

\* A well-formed log file opened, the store dropped with no call made on it,
\* and the file opened again (the second block of tests::test_persistence,
\* without writes).
InitReplay == \E l \in Logs : InitFor({1}, l.bytes, 0)

NextReplay == OpenOk \/ DropStore

SpecReplay == InitReplay /\ [][NextReplay]_vars

-----------------------------------------------------------------------------
(* N threads, each issuing one set with its own key (tests::test_cuncurrent_writes) *)

\* format!("key{}", i) and format!("value{}", i), shortened to "k<i>" and "v<i>".
KeyOf(t) == <<107, 48 + t>>
ValOf(t) == <<118, 48 + t>>

\* store_clone.set(format!("key{}", i), format!("value{}", i)) (kv.rs:196-198).
CallOwnSet(t) ==
    /\ cid[t] = 0
    /\ ~dropped
    /\ Begin(t, [kind |-> "set", key |-> KeyOf(t), value |-> ValOf(t)], "lock_writer")

InitWriters == InitFor(Writers, <<>>, Cardinality(Writers))

WriterStep(t) ==
    \/ CallOwnSet(t)
    \/ LockWriter(t)
    \/ SerializeTag(t)
    \/ SerializeFields(t)
    \/ FlushOk(t)
    \/ FlushErr(t)
    \/ LockMapWrite(t)
    \/ ApplySet(t)

NextWriters ==
    \/ OpenOk
    \/ DropStore
    \/ \E t \in Writers : WriterStep(t)

SpecWriters == InitWriters /\ [][NextWriters]_vars

-----------------------------------------------------------------------------
(* Helpers of the properties *)

Range(q) == {q[i] : i \in 1..Len(q)}

IsPrefix(a, b) == Len(a) <= Len(b) /\ SubSeq(b, 1, Len(a)) = a

\* No call of a store that is open is in progress.
Quiescent == store = "open" /\ Idle(DOMAIN pc)

\* Thread t has returned from a call and has not begun another.
Returned(t) == pc[t] = "idle" /\ res[t].t # "none"

\* open has just returned a store: no call has been issued on it yet.
JustOpened == store = "open" /\ hist = <<>> /\ Idle(DOMAIN pc)

-----------------------------------------------------------------------------
(* C1 *)

\* C1: whenever no set or remove call is in progress on the shared store, and
\* no I/O error or panic has happened, the Index equals the map obtained by
\* replaying the Commands of the log file, in file order, from an empty map.
C1_IndexIsReplayOfLog ==
    (Quiescent /\ faults = 0) => map = Load(file).map

-----------------------------------------------------------------------------
(* C2 *)

\* C2: without an I/O error or panic, the calls change the Index in the order
\* in which their records went into the Log: the sequence of Index
\* applications is always a prefix of the sequence of completed appends.
C2_ApplyOrderIsLogOrder ==
    faults = 0 => IsPrefix(applyOrder, logOrder)

-----------------------------------------------------------------------------
(* C3 *)

\* C3: over successive sessions of successful calls on one path (no I/O
\* error, no panic), open never fails, and the store it returns holds for
\* every key what the previous store held when its handles were dropped.
C3_ReopenKeepsEveryKey ==
    faults = 0 =>
        /\ lastOpen \notin {"serde", "abort"}
        /\ (JustOpened /\ dropped) => map = mapAtDrop

-----------------------------------------------------------------------------
(* C4, C5 *)

\* Well-formed logs cut strictly inside a record.
MidRecordCuts ==
    UNION {{SubSeq(l.bytes, 1, n) : n \in (0..Len(l.bytes)) \ Boundaries(l.cmds)} : l \in Logs}

\* Index.apply of the design: Set inserts or overwrites, Remove deletes the
\* key if it is there.
Applied(m, c) ==
    IF c.tag = "Set"
    THEN [k \in DOMAIN m \cup {c.key} |-> IF k = c.key THEN c.value ELSE m[k]]
    ELSE [k \in {x \in DOMAIN m : x # c.key} |-> m[k]]

\* The left-to-right application of Commands to an empty map.
RECURSIVE AppliedAll(_)
AppliedAll(cs) ==
    IF cs = <<>> THEN EmptyMap
    ELSE Applied(AppliedAll(SubSeq(cs, 1, Len(cs) - 1)), cs[Len(cs)])

\* C4: open of a well-formed log cut in the middle of a record fails with a
\* corruption error and returns no store.
C4_TruncatedLogFailsOpen ==
    (lastOpen # "none" /\ file \in MidRecordCuts) =>
        (lastOpen = "serde" /\ store = "closed")

\* C5: open of a concatenation of complete encoded Commands succeeds, and the
\* Index is the left-to-right application of those Commands to an empty map.
C5_CompleteLogLoads ==
    \A l \in Logs :
        (lastOpen # "none" /\ file = l.bytes) =>
            (lastOpen = "ok" /\ store = "open" /\ map = AppliedAll(l.cmds))

\* A log was opened that overwrites a key, removes a key that is absent and
\* holds an empty key and an empty value.
C5_Witness ==
    /\ lastOpen = "ok"
    /\ file = EncodeAll(<<SetCmd(<<>>, <<120>>), SetCmd(<<>>, <<>>)>>)
    /\ map = (<<>> :> <<>>)

-----------------------------------------------------------------------------
(* C6 *)

\* The map that holds every writer's own key with its own value.
ExpectedMap == [k \in {KeyOf(t) : t \in Writers} |->
                   ValOf(CHOOSE t \in Writers : KeyOf(t) = k)]

\* The log files that hold the writers' Set records, each once and whole, in
\* any order.
WriterLogs ==
    LET n == Cardinality(Writers)
        orders == {q \in [1..n -> Writers] : \A i, j \in 1..n : q[i] = q[j] => i = j}
    IN {EncodeAll([i \in 1..n |-> SetCmd(KeyOf(q[i]), ValOf(q[i]))]) : q \in orders}

\* C6: once every one of the N writers has returned from its set, the Index
\* holds each key with its own value and the log file is the N Set records,
\* each once and whole; a store opened after the handles were dropped holds
\* the same N entries.
C6_ConcurrentWriters ==
    /\ (store = "open" /\ ~dropped /\ \A t \in DOMAIN pc : res[t].t = "ok") =>
           (map = ExpectedMap /\ file \in WriterLogs)
    /\ (store = "open" /\ dropped /\ ncalls = Cardinality(DOMAIN pc) /\ faults = 0) =>
           map = ExpectedMap

\* All writers returned Ok, the handles were dropped and the store was opened again.
C6_Witness ==
    /\ store = "open"
    /\ dropped
    /\ ncalls = Cardinality(DOMAIN pc)
    /\ faults = 0
    /\ map = ExpectedMap
    /\ file \in WriterLogs

-----------------------------------------------------------------------------
(* C7, C8 *)

\* The calls of hist from the i-th on are set(k, v), remove(k) and one more
\* call on k, and neither the set nor the remove failed in its append.
SetThenRemove(i, k) ==
    /\ i + 2 <= Len(hist)
    /\ hist[i].op.kind = "set" /\ hist[i].op.key = k /\ hist[i].res.t = "ok"
    /\ hist[i + 1].op.kind = "remove" /\ hist[i + 1].op.key = k
    /\ hist[i + 1].res.t # "io"
    /\ hist[i + 2].op.key = k

\* C7, with a single caller: the step of remove(k) that holds the write lock
\* returns Ok exactly when k is in the Index and KeyNotFound exactly when it
\* is not, leaves k absent and every other key as it was; and after set(k, v)
\* and remove(k), get(k) returns absent and a second remove(k) KeyNotFound.
C7_RemoveSemantics ==
    /\ [][\A t \in DOMAIN pc :
            (pc[t] = "apply" /\ op[t].kind = "remove" /\ pc'[t] = "idle") =>
                /\ res'[t].t = "ok" <=> op[t].key \in DOMAIN map
                /\ res'[t].t = "notfound" <=> op[t].key \notin DOMAIN map
                /\ op[t].key \notin DOMAIN map'
                /\ \A k \in (DOMAIN map \cup DOMAIN map') \ {op[t].key} :
                       k \in DOMAIN map /\ k \in DOMAIN map' /\ map'[k] = map[k]]_vars
    /\ [](\A i \in 1..Len(hist), k \in Keys :
            SetThenRemove(i, k) =>
                /\ hist[i + 1].res.t = "ok"
                /\ hist[i + 2].op.kind = "get" => hist[i + 2].res.t = "absent"
                /\ hist[i + 2].op.kind = "remove" => hist[i + 2].res.t \in {"notfound", "io"})

\* set("a", "x"), remove("a") and a second remove("a") have returned: Ok, Ok
\* and KeyNotFound.
C7_Witness ==
    /\ Len(hist) = 3
    /\ SetThenRemove(1, <<97>>)
    /\ hist[1].op.value = <<120>>
    /\ hist[2].res.t = "ok"
    /\ hist[3].op.kind = "remove"
    /\ hist[3].res.t = "notfound"

\* C8, with no I/O error and no panic: when remove(k) has returned Ok or
\* KeyNotFound, its Remove{k} record is the last record written to the log
\* file; and when it returned KeyNotFound, open of that log file succeeds
\* with k absent.
C8_RemoveOfAbsentIsLogged ==
    \A t \in DOMAIN pc :
        (faults = 0 /\ Returned(t) /\ op[t].kind = "remove" /\ res[t].t \in {"ok", "notfound"}) =>
            LET rec == Encode(RemoveCmd(op[t].key)) IN
            /\ wpos >= Len(rec)
            /\ SubSeq(file, wpos - Len(rec) + 1, wpos) = rec
            /\ res[t].t = "notfound" =>
                   (Load(file).ok /\ op[t].key \notin DOMAIN Load(file).map)

-----------------------------------------------------------------------------
(* C9 *)

\* C9: a call whose flush fails returns the I/O error at once and leaves the
\* Index as it was; only a call whose append completed takes the Index write
\* lock, and only such a call changes the Index.
C9_FailedAppendLeavesIndex ==
    [][\A t \in DOMAIN pc :
          /\ (pc[t] = "flush" /\ pc'[t] \notin {"flush", "dead"}
                 /\ cid[t] \notin Range(logOrder')) =>
                 (pc'[t] = "idle" /\ res'[t].t = "io" /\ map' = map /\ mWriter' = mWriter)
          /\ (mWriter' = t /\ mWriter # t) => cid[t] \in Range(logOrder)
          /\ (map' # map /\ mWriter = t) => cid[t] \in Range(logOrder)]_vars

\* A set or remove has returned an I/O error while the Index holds an entry
\* and the failed call's bytes are still in the writer's buffer.
C9_Witness ==
    \E t \in DOMAIN pc :
        /\ Returned(t)
        /\ res[t].t = "io"
        /\ DOMAIN map # {}
        /\ buf # <<>>

-----------------------------------------------------------------------------
(* C10 *)

\* C10 as claimed: a call that began after either lock was poisoned returns
\* an internal error.
C10_PoisonFailsEveryCaller ==
    \A t \in DOMAIN pc :
        (Returned(t) /\ (sawPoison[t].w \/ sawPoison[t].m)) => res[t].t = "internal"

\* C10 as amended: a get that began after the Index lock was poisoned returns
\* an internal error; a set or remove that began after the Log lock was
\* poisoned returns an internal error; a set or remove that began after the
\* Index lock was poisoned returns an internal error, or an I/O error when its
\* append fails; and a set or remove that finds the Index lock poisoned after
\* its append returns an internal error.
C10_PoisonFailsCallersOfTheLock ==
    /\ [](\A t \in DOMAIN pc :
            Returned(t) =>
                /\ (sawPoison[t].m /\ op[t].kind = "get") => res[t].t = "internal"
                /\ (sawPoison[t].w /\ op[t].kind # "get") => res[t].t = "internal"
                /\ (sawPoison[t].m /\ op[t].kind # "get") => res[t].t \in {"internal", "io"})
    /\ [][\A t \in DOMAIN pc :
            (pc[t] = "lock_map" /\ mPoisoned /\ pc'[t] # "lock_map") =>
                (pc'[t] = "idle" /\ res'[t].t = "internal" /\ map' = map)]_vars

\* A set whose append completed has returned an internal error because the
\* Index lock was poisoned.
C10_Witness ==
    \E t \in DOMAIN pc :
        /\ Returned(t)
        /\ op[t].kind = "set"
        /\ res[t].t = "internal"
        /\ cid[t] \in Range(logOrder)
        /\ mPoisoned

-----------------------------------------------------------------------------
(* C11 *)

\* Thread t is inside a get call.
InGet(t) == op[t].kind = "get" /\ pc[t] \in {"lock_read", "read"}

\* C11: no step of a get call changes the Index, the log file, the writer's
\* buffer or its offset, and none takes the Log lock; the step that returns
\* while holding the read lock returns the value the Index holds for the key
\* at that moment, or absent when the Index has no entry for it.
C11_GetIsPureRead ==
    /\ [][\A t \in DOMAIN pc :
            (InGet(t) /\ pc'[t] # pc[t]) =>
                /\ map' = map /\ file' = file /\ buf' = buf /\ wpos' = wpos
                /\ wHolder' = wHolder
                /\ (pc[t] = "read") =>
                       /\ pc'[t] = "idle"
                       /\ op[t].key \in DOMAIN map =>
                              (res'[t].t = "value" /\ res'[t].v = map[op[t].key])
                       /\ op[t].key \notin DOMAIN map => res'[t].t = "absent"]_vars
    /\ [](\A t \in DOMAIN pc : InGet(t) => wHolder # t)

\* A get has returned the value that an earlier set gave its key.
C11_Witness ==
    \E t \in DOMAIN pc :
        /\ Returned(t)
        /\ op[t].kind = "get"
        /\ res[t] = R("value", <<120>>)
        /\ map[op[t].key] = <<120>>

-----------------------------------------------------------------------------
(* C12 *)

\* The bytes of b from offset p on are zero or more complete Commands: the
\* stream ends exactly where a record ends.
RECURSIVE CompleteFrom(_, _)
CompleteFrom(b, p) ==
    IF p >= Len(b) THEN TRUE
    ELSE LET d == Decode(b, p) IN d.st = "ok" /\ CompleteFrom(b, d.next)

\* C12: when the log file holds, after at least one complete record, a record
\* that cannot be decoded for any reason other than the end of the stream at
\* a record boundary, open returns no store: it never returns Ok with an
\* Index built from the records before it.
C12_UndecodableRecordFailsOpen ==
    (lastOpen # "none" /\ Decode(file, 0).st = "ok" /\ ~CompleteFrom(file, 0)) =>
        (lastOpen # "ok" /\ store = "closed")

-----------------------------------------------------------------------------
(* C13 *)

\* C13: a well-formed log opened a second time, with no write since the first
\* open, gives an Index with the contents the first open gave; and open
\* leaves the bytes of the log file as they were.
C13_ReplayIsIdempotent ==
    /\ []((store = "open" /\ dropped) => map = mapAtDrop)
    /\ [][(store = "closed" /\ store' = "open") =>
            (file' = file /\ map' = AppliedAll(CHOOSE cs \in LogSeqs : EncodeAll(cs) = file))]_vars

\* A log that sets a key twice has been opened, dropped and opened again, and
\* the Index holds the later value both times.
C13_Witness ==
    /\ store = "open"
    /\ dropped
    /\ file = EncodeAll(<<SetCmd(<<97>>, <<>>), SetCmd(<<97>>, <<120>>)>>)
    /\ map = (<<97>> :> <<120>>)
    /\ mapAtDrop = map

-----------------------------------------------------------------------------
(* C14 *)

\* C14, with no I/O error and no panic: the step in which the append of a set
\* or remove completes leaves every byte that was in the log file where it
\* was and puts the call's record right after them, also when it is the first
\* append after open on a path whose log already holds records.
C14_LogIsAppendOnly ==
    [][\A t \in DOMAIN pc :
          (faults = 0 /\ pc[t] = "flush" /\ pc'[t] = "lock_map") =>
              file' = file \o Encode(Cmd(op[t]))]_vars

-----------------------------------------------------------------------------
(* C15 *)

\* C15, with no I/O error and no panic: in every state in which no append is
\* in progress, over successive sessions, the log file read from offset 0 is
\* zero or more complete Commands and ends where a record ends.
C15_LogIsWellFormed ==
    (faults = 0 /\ \A t \in DOMAIN pc : pc[t] \notin {"ser_tag", "ser_fields", "flush"}) =>
        CompleteFrom(file, 0)

-----------------------------------------------------------------------------
(* C16 *)

\* Thread t is inside the encode+write+flush section of set or remove.
InLogSection(t) == pc[t] \in {"ser_tag", "ser_fields", "flush"}

\* C16, for the threads of one session: a thread is inside the
\* encode+write+flush section exactly while it holds the Log lock, so at most
\* one is; the lock is taken only when it is free; only the holder changes
\* the writer's buffer or the log file; without I/O errors the step that
\* changes the file puts the holder's whole record after the bytes already in
\* it; and the appends complete in the order in which the lock was taken, the
\* holder's call being the next in that order.
C16_OneWriterInLogSection ==
    /\ [](\A t \in DOMAIN pc : InLogSection(t) <=> wHolder = t)
    /\ [](Cardinality({t \in DOMAIN pc : InLogSection(t)}) <= 1)
    /\ [][/\ (wHolder' # wHolder /\ wHolder' # 0) => wHolder = 0
          /\ (buf' # buf \/ file' # file) =>
                 (store = "open" /\ wHolder # 0 /\ InLogSection(wHolder))
          /\ (file' # file /\ faults' = 0) =>
                 file' = file \o Encode(Cmd(op[wHolder]))
          /\ logOrder' # logOrder =>
                 (wHolder # 0 /\ logOrder' = Append(logOrder, cid[wHolder]))]_vars

\* Two threads have each completed an append; the call that was issued second
\* took the Log lock first, and its record is the first of the file.
C16_Witness ==
    /\ faults = 0
    /\ logOrder = <<2, 1>>
    /\ \E t, u \in DOMAIN pc :
        /\ cid[t] = 2 /\ cid[u] = 1
        /\ op[t].key # op[u].key
        /\ file = Encode(Cmd(op[t])) \o Encode(Cmd(op[u]))

-----------------------------------------------------------------------------
(* C17 *)

\* C17: a thread is inside the Index critical section as a writer exactly
\* while it holds the write lock, as a reader exactly while it holds a read
\* lock, and while one holds the write lock no other thread holds either; a
\* get that waits for the read lock can take it whenever no writer holds the
\* Index lock, whoever holds read locks or the Log lock, and a get that holds
\* the read lock can return.
C17_IndexLockApartFromLogLock ==
    /\ \A t \in DOMAIN pc :
        /\ pc[t] = "apply" <=> mWriter = t
        /\ pc[t] = "read" <=> t \in mReaders
        /\ (pc[t] = "lock_read" /\ mWriter = 0) => ENABLED GetLockRead(t)
        /\ pc[t] = "read" => ENABLED GetRead(t)
    /\ mWriter # 0 => mReaders = {}

\* A get that was called after a set has returned while the set's thread
\* holds the Log lock with its record in the buffer, not yet flushed.
C17_Witness ==
    \E t, u \in DOMAIN pc :
        /\ pc[u] = "flush"
        /\ wHolder = u
        /\ buf = Encode(Cmd(op[u]))
        /\ Returned(t)
        /\ op[t].kind = "get"
        /\ res[t].t = "absent"
        /\ cid[t] > cid[u]

-----------------------------------------------------------------------------
(* C18 *)

\* The complete Commands that b holds from offset p on, up to the first
\* record that does not decode.
RECURSIVE DecodedCmds(_, _)
DecodedCmds(b, p) ==
    LET d == Decode(b, p) IN
    IF d.st = "ok" THEN <<d.cmd>> \o DecodedCmds(b, d.next) ELSE <<>>

\* The set or remove call of history entry h completed its append.
AppendSucceeded(h) == h.op.kind # "get" /\ h.res.t \in {"ok", "notfound"}

\* The Commands of the calls of history q whose append succeeded, in order.
SucceededCmds(q) ==
    LET ok == SelectSeq(q, AppendSucceeded) IN [i \in 1..Len(ok) |-> Cmd(ok[i].op)]

\* C18, for a single caller in the first session on a fresh path, with flushes
\* that may fail: whenever no call is in progress, the log file holds exactly
\* the Commands of the calls whose append succeeded, none of a call that
\* returned an I/O error, and the Index equals the replay of the log file.
C18_FailedCommandStaysOut ==
    (Quiescent /\ ~dropped) =>
        /\ DecodedCmds(file, 0) = SucceededCmds(hist)
        /\ map = Load(file).map

-----------------------------------------------------------------------------
(* C19 *)

\* The bytes of f hold the encoded Command c, whole, at some offset.
HoldsRecord(f, c) ==
    \E i \in 0..Len(f) :
        i + Len(Encode(c)) <= Len(f) /\ SubSeq(f, i + 1, i + Len(Encode(c))) = Encode(c)

\* C19, with no I/O error and no panic: in every state, also in the middle of
\* a call, every entry k -> v of the Index of an open store is the value of a
\* complete Set{k, v} record that the log file holds.
C19_DurableBeforeVisible ==
    (faults = 0 /\ store = "open") =>
        \A k \in DOMAIN map : HoldsRecord(file, SetCmd(k, map[k]))

-----------------------------------------------------------------------------
(* C20 *)

\* C20: no thread holds the Log lock together with a lock of the Index; while
\* a call is in progress some thread in a call can take a step; and, under a
\* fair scheduler and with flushes that return, every call that has begun
\* returns.
C20_EveryCallReturns ==
    /\ [](\A t \in DOMAIN pc : wHolder = t => (mWriter # t /\ t \notin mReaders))
    /\ []((\E t \in DOMAIN pc : pc[t] # "idle") =>
             \E t \in DOMAIN pc : pc[t] # "idle" /\ ENABLED Progress(t))
    /\ \A t \in Threads : (pc[t] # "idle") ~> (pc[t] = "idle")

\* A set or remove waits for the Log lock, which the other thread holds with
\* its record encoded and its flush still to come.
C20_Witness ==
    \E t, u \in DOMAIN pc :
        /\ pc[t] = "lock_writer"
        /\ pc[u] = "flush"
        /\ wHolder = u
        /\ t # u

====
